---- MODULE Spec2Model ----
(***************************************************************************)
(* Model of tasks.py: the release workflow version_and_commit, the ledger  *)
(* mutation update, the version bump update_version and the bootstrap      *)
(* initialize_warehouse, over the two persisted files iteration.json and   *)
(* version.json.                                                           *)
(***************************************************************************)
EXTENDS Integers, Sequences, FiniteSets, TLC

VARIABLES
    iterFile,        \* content of iteration.json on disk
    versionFile,     \* content of version.json on disk
    tree,            \* blueprint files found under ROOT (relative paths)
    task,            \* the task invoked last: "none", "version_and_commit", "initialize_warehouse"
    pc,              \* position of the running task, or how the last task ended
    error,           \* the exception that ended the task, "" when none
    staged_only,     \* parameter of version_and_commit
    output,          \* stdout of `git status --porcelain`, a sequence of lines
    statuses,        \* the parsed GitFileStatus list
    iteraction_json, \* the ledger document as loaded at line 130
    iteration,       \* the in-memory Iteration (its iterations dict)
    filtered,        \* the blueprint records of statuses
    index,           \* loop index of line 145 (0-based, as enumerate)
    updated_version, \* the Version object after update_version (its version field)
    custom_message,  \* the annotation returned by prompt
    trace,           \* external effects of the running task, in order
    other,           \* the locals of a second, suspended process of the task
    issued           \* the versions `git tag` has been run for (line 215)

vars == <<iterFile, versionFile, tree, other, issued, task, pc, error, staged_only, output,
          statuses, iteraction_json, iteration, filtered, index,
          updated_version, custom_message, trace>>

----------------------------------------------------------------------------
(* Bounds *)

MaxLines == 2        \* lines of status output per run
MaxVersion == 3      \* no run starts once version.json could pass this value
MaxParseLines == 2   \* lines of status output in the parser specification
MaxIteration0 == 2   \* largest iteration number in an initial ledger

----------------------------------------------------------------------------
(* Constants of the program *)

BLUEPRINT_EXTENSION == ".spz2bp"

FIRST_ITERATION_NUMBER == 1

----------------------------------------------------------------------------
(* Paths: pathlib.Path values, kept as their directory, stem and suffix *)

MkPath(d, s, x) == [dir |-> d, stem |-> s, suffix |-> x]

PathAX == MkPath("a", "x", ".spz2bp")
PathBX == MkPath("b", "x", ".spz2bp")
PathNotes == MkPath("", "notes", ".txt")

BlueprintPaths == {PathAX, PathBX}
Paths == BlueprintPaths \cup {PathNotes}

\* str(path)
Str(p) == IF p.dir = "" THEN p.stem \o p.suffix
          ELSE p.dir \o "/" \o p.stem \o p.suffix

----------------------------------------------------------------------------
(* GitStatus and GitFileStatus *)

GitStatusValues == {"A", "D", "M", "R", "??"}

GitStatusMessage(value) ==
    CASE value = "A" -> "Add"
      [] value = "D" -> "Delete"
      [] value = "M" -> "Update"
      [] value = "R" -> "Move|Rename"
      [] value = "??" -> "Add"

FileMessage(st) == GitStatusMessage(st.status) \o " " \o st.path.stem

isBlueprintFile(st) == st.path.suffix = BLUEPRINT_EXTENSION

----------------------------------------------------------------------------
(* The status parser, lines 104-126 *)

\* A line of porcelain output: its first two characters and the text from
\* offset 3, which is a path or "<old> -> <new>".
MkLine(c1, c2, p) == [code |-> <<c1, c2>>, arrow |-> FALSE, old |-> p, new |-> p]
MkRename(c1, c2, p, q) == [code |-> <<c1, c2>>, arrow |-> TRUE, old |-> p, new |-> q]

Lines ==
    { MkLine("M", " ", PathAX), MkLine(" ", "M", PathAX),
      MkLine("?", "?", PathBX), MkLine("A", " ", PathNotes),
      MkLine("M", "M", PathBX), MkRename("R", " ", PathAX, PathBX) }

RECURSIVE SeqsUpTo(_, _)
SeqsUpTo(S, n) ==
    IF n = 0 THEN {<<>>}
    ELSE LET shorter == SeqsUpTo(S, n - 1)
         IN shorter \cup { Append(s, e) : s \in { t \in shorter : Len(t) = n - 1 }, e \in S }

Outputs == SeqsUpTo(Lines, MaxLines)

\* str.strip() of the two-character code
Strip(code) ==
    IF code[1] = " " /\ code[2] = " " THEN ""
    ELSE IF code[1] = " " THEN code[2]
    ELSE IF code[2] = " " THEN code[1]
    ELSE code[1] \o code[2]

\* a staged-only filter that also drops untracked lines
Skipped_Untracked(line, so) == so /\ line.code[1] \in {" ", "?"}

\* line 108-115: the line is skipped in staged-only mode
Skipped(line, so) == so /\ line.code[1] = " "

\* line 117-119: the effective path
LinePath(line) == IF line.arrow THEN line.new ELSE line.old

\* a lookup that lets any code through
ParseFails_Lenient(line, so) == FALSE

\* line 120: GitStatus(status) raises ValueError for any other value
ParseFails(line, so) == ~Skipped(line, so) /\ Strip(line.code) \notin GitStatusValues

ParseLine(line) == [path |-> LinePath(line), status |-> Strip(line.code)]

RECURSIVE ParseStatuses(_, _)
ParseStatuses(out, so) ==
    IF out = <<>> THEN <<>>
    ELSE IF Skipped(Head(out), so) THEN ParseStatuses(Tail(out), so)
    ELSE <<ParseLine(Head(out))>> \o ParseStatuses(Tail(out), so)

ParseRaises(out, so) == \E i \in 1..Len(out) : ParseFails(out[i], so)

\* a loop over every parsed record, blueprint or not
FilterBlueprints_All(sts) == sts

\* lines 137-141
RECURSIVE FilterBlueprints(_)
FilterBlueprints(sts) ==
    IF sts = <<>> THEN <<>>
    ELSE IF Head(sts).path.suffix = BLUEPRINT_EXTENSION
         THEN <<Head(sts)>> \o FilterBlueprints(Tail(sts))
         ELSE FilterBlueprints(Tail(sts))

----------------------------------------------------------------------------
(* The ledger: Iteration.iterations, a dict from path string to model *)

BlueprintIterationModel(name, path, n) == [name |-> name, path |-> path, iteration |-> n]

EmptyLedger == [k \in {} |-> BlueprintIterationModel("", "", 0)]

Put(d, k, v) == [x \in DOMAIN d \cup {k} |-> IF x = k THEN v ELSE d[x]]

\* Iteration.from_dict: one model per key, built from the value's fields
from_dict(doc) ==
    [k \in DOMAIN doc |-> BlueprintIterationModel(doc[k].name, doc[k].path, doc[k].iteration)]

\* update, lines 232-251 (the blueprint check of line 229 is UpdateRaises)
UpdateRaises(st) == ~isBlueprintFile(st)

\* an update that keeps the iteration number of an existing entry
update_no_increment(it, st) ==
    LET path == Str(st.path)
        iteration_number ==
            IF path \in DOMAIN it THEN it[path].iteration
            ELSE FIRST_ITERATION_NUMBER
    IN Put(it, path, BlueprintIterationModel(st.path.stem, Str(st.path), iteration_number))

\* an update that also bumps every other entry of the ledger
update_bump_all(it, st) ==
    LET path == Str(st.path)
        bumped == [k \in DOMAIN it |-> [it[k] EXCEPT !.iteration = @ + 1]]
    IN Put(bumped, path,
           BlueprintIterationModel(st.path.stem, Str(st.path),
               IF path \in DOMAIN it THEN it[path].iteration + 1
               ELSE FIRST_ITERATION_NUMBER))

\* an update that stores the entry under the stem
update_stem_key(it, st) ==
    LET path == Str(st.path)
        iteration_number ==
            IF path \in DOMAIN it THEN it[path].iteration + 1
            ELSE FIRST_ITERATION_NUMBER
    IN Put(it, st.path.stem,
           BlueprintIterationModel(st.path.stem, Str(st.path), iteration_number))

update(it, st) ==
    LET path == Str(st.path)
        iteration_number ==
            IF path \in DOMAIN it THEN it[path].iteration + 1
            ELSE FIRST_ITERATION_NUMBER
    IN Put(it, path, BlueprintIterationModel(st.path.stem, Str(st.path), iteration_number))

----------------------------------------------------------------------------
(* Files *)

\* texts that are not a document of the file they are in
NotJson == "not json"
EmptyObject == "{}"
EmptyArray == "[]"
IterationsArray == "{\"iterations\": []}"

\* what is left when a dump is written from offset 0 over a longer text:
\* the dumped document followed by the tail of the longer one
Overlaid == "overlaid"

\* iteration.json: absent, empty, not a ledger document, or a ledger document
IterAbsent == [kind |-> "absent", data |-> EmptyLedger, text |-> ""]
IterEmpty == [kind |-> "empty", data |-> EmptyLedger, text |-> ""]
IterMalformed(doc) == [kind |-> "malformed", data |-> EmptyLedger, text |-> doc]
IterJson(d) == [kind |-> "json", data |-> d, text |-> ""]
\* a shorter ledger dumped over the dump of ledger d
IterOverlaid(d) == [kind |-> "malformed", data |-> d, text |-> Overlaid]

\* version.json: empty, not a Version document, or {"version": n} with n a
\* JSON number ("int") or a JSON string of digits ("str")
VersionEmpty == [kind |-> "empty", n |-> 0, text |-> ""]
VersionMalformed(doc) == [kind |-> "malformed", n |-> 0, text |-> doc]
VersionInt(n) == [kind |-> "int", n |-> n, text |-> ""]
VersionStr(n) == [kind |-> "str", n |-> n, text |-> ""]
\* a shorter version dumped over the dump of version n
VersionOverlaid(n) == [kind |-> "malformed", n |-> n, text |-> Overlaid]

\* lines 129-132: the exception of json.load and Iteration.from_dict
LoadError(f) ==
    IF f.kind = "absent" THEN "FileNotFoundError"
    ELSE IF f.kind = "empty" THEN "JSONDecodeError"
    ELSE IF f.text = EmptyObject THEN "KeyError"
    ELSE IF f.text = EmptyArray THEN "TypeError"
    ELSE IF f.text = IterationsArray THEN "AttributeError"
    ELSE "JSONDecodeError"

\* line 153: the exception of json.load and Version(**...)
VersionError(f) ==
    IF f.kind = "empty" THEN "JSONDecodeError"
    ELSE IF f.text \in {EmptyObject, EmptyArray} THEN "TypeError"
    ELSE "JSONDecodeError"

\* len() of a string: the characters a name, a path or a document takes in
\* a file (json.dump writes these ASCII strings unescaped)
StrLen(str) == Len(str)

Digits(n) == IF n < 10 THEN 1 ELSE IF n < 100 THEN 2 ELSE 3

\* the length of json.dump(asdict(iteration), f, indent=4), line 206
RECURSIVE EntriesSize(_, _)
EntriesSize(d, keys) ==
    IF keys = {} THEN 0
    ELSE LET k == CHOOSE x \in keys : TRUE
         IN 99 + StrLen(k) + StrLen(d[k].name) + StrLen(d[k].path)
               + Digits(d[k].iteration) + EntriesSize(d, keys \ {k})

LedgerSize(d) == IF DOMAIN d = {} THEN 24 ELSE 28 + EntriesSize(d, DOMAIN d)

IterFileSize(f) ==
    IF f.kind = "json" \/ f.text = Overlaid THEN LedgerSize(f.data)
    ELSE IF f.kind = "malformed" THEN StrLen(f.text)
    ELSE 0

\* the length of json.dump(asdict(updated_version), f, indent=4), line 209
VersionSize(n) == 19 + Digits(n)

VersionFileSize(f) ==
    IF f.kind = "int" \/ f.text = Overlaid THEN VersionSize(f.n)
    ELSE IF f.kind = "str" THEN VersionSize(f.n) + 2
    ELSE IF f.kind = "malformed" THEN StrLen(f.text)
    ELSE 0

\* the file after a handle opened with "w" writes its dump and is closed:
\* the write starts at offset 0 and does not shorten the file, so whatever
\* another process wrote since the open stays behind the dump
DumpLedgerOver(f, d) ==
    IF IterFileSize(f) > LedgerSize(d) THEN IterOverlaid(f.data) ELSE IterJson(d)

DumpVersionOver(f, n) ==
    IF VersionFileSize(f) > VersionSize(n) THEN VersionOverlaid(f.n) ELSE VersionInt(n)

\* update_version, lines 222-225: version.version + 1 raises TypeError on a str
UpdateVersionRaises(vf) == vf.kind = "str"

\* a bump that skips a version
update_version_skip(vf) == vf.n + 2

update_version(vf) == vf.n + 1

----------------------------------------------------------------------------
(* External effects, in the order the task produces them *)

Ev(kind, i, ans, v, ok) == [ev |-> kind, index |-> i, ans |-> ans, v |-> v, ok |-> ok]

CustomMessages == {"note"}

\* how a task ends: it returned (lines 219, 298), returned early on Abort
\* (lines 161, 190), or an exception left it
Ended == {"done", "aborted", "error"}

\* the record of the current loop iteration
status == filtered[index + 1]

\* lines 168-170: the commands of the current record
StageCmd == Ev("stage", index, Str(status.path), 0, TRUE)
CommitCmd == Ev("commit", index, FileMessage(status) \o "\n\n" \o custom_message, 0, TRUE)
TagCmd == Ev("tag", index, FileMessage(status) \o "\n\n" \o custom_message, updated_version, TRUE)
PushCmd == Ev("push", index, "", 0, TRUE)

Failed(cmd) == [cmd EXCEPT !.ok = FALSE]

----------------------------------------------------------------------------
(* Initial states *)

Tracked(p, n) == BlueprintIterationModel(p.stem, Str(p), n)

\* ledgers as initialize_warehouse and earlier runs write them: the name of
\* an entry is the stem of its path
WrittenLedgers ==
    { EmptyLedger,
      Put(EmptyLedger, Str(PathAX), Tracked(PathAX, 1)),
      Put(Put(EmptyLedger, Str(PathAX), Tracked(PathAX, MaxIteration0)),
          Str(PathBX), Tracked(PathBX, 1)),
      Put(EmptyLedger, Str(PathBX), Tracked(PathBX, MaxIteration0)) }

\* a ledger whose stored name was edited in the working tree: from_dict
\* takes the name from the document and compares it with nothing
EditedLedgers ==
    { Put(EmptyLedger, Str(PathBX),
          BlueprintIterationModel("Hull", Str(PathBX), MaxIteration0)) }

\* Ledger documents iteration.json may hold when a task starts: every
\* document of the form {"iterations": {path: {name, path, iteration}}} is
\* loaded by lines 129-132
InitLedgers == WrittenLedgers \cup EditedLedgers

MalformedLedgers == {NotJson, EmptyObject, EmptyArray, IterationsArray}
MalformedVersions == {NotJson, EmptyObject}

InitIterFiles ==
    {IterAbsent, IterEmpty}
        \cup { IterMalformed(doc) : doc \in MalformedLedgers }
        \cup { IterJson(d) : d \in InitLedgers }

InitVersionFiles ==
    { VersionMalformed(doc) : doc \in MalformedVersions }
        \cup {VersionStr(1), VersionInt(0), VersionInt(1)}

InitTrees == {BlueprintPaths, {PathAX}}

\* the local state of a process that has not started a task
IdleLocals ==
    [task |-> "none", pc |-> "idle", error |-> "", staged_only |-> FALSE,
     output |-> <<>>, statuses |-> <<>>, iteraction_json |-> EmptyLedger,
     iteration |-> EmptyLedger, filtered |-> <<>>, index |-> 0,
     updated_version |-> 0, custom_message |-> "", trace |-> <<>>]

Init ==
    /\ iterFile \in InitIterFiles
    /\ versionFile \in InitVersionFiles
    /\ tree \in InitTrees
    /\ task = "none"
    /\ pc = "idle"
    /\ error = ""
    /\ staged_only = FALSE
    /\ output = <<>>
    /\ statuses = <<>>
    /\ iteraction_json = EmptyLedger
    /\ iteration = EmptyLedger
    /\ filtered = <<>>
    /\ index = 0
    /\ updated_version = 0
    /\ custom_message = ""
    /\ trace = <<>>
    /\ other = IdleLocals
    /\ issued = IF versionFile.kind = "int" THEN 1..versionFile.n ELSE {}

----------------------------------------------------------------------------
(* version_and_commit *)

Raise(e) == pc' = "error" /\ error' = e

\* lines 92-126: run `git status --porcelain` and parse its output
ParseStatus(out, so) ==
    /\ pc = "idle"
    /\ versionFile.kind = "int" => versionFile.n + MaxLines <= MaxVersion
    /\ task' = "version_and_commit"
    /\ staged_only' = so
    /\ output' = out
    /\ iteraction_json' = EmptyLedger
    /\ iteration' = EmptyLedger
    /\ filtered' = <<>>
    /\ index' = 0
    /\ updated_version' = 0
    /\ custom_message' = ""
    /\ trace' = <<>>
    /\ IF ParseRaises(out, so)
       THEN /\ Raise("ValueError")
            /\ statuses' = <<>>
       ELSE /\ pc' = "load"
            /\ error' = ""
            /\ statuses' = ParseStatuses(out, so)
    /\ UNCHANGED <<iterFile, versionFile, tree, other, issued>>

\* a load that takes a missing or unreadable ledger for an empty one
LoadIteration_DefaultsEmpty ==
    /\ pc = "load"
    /\ iteraction_json' = iterFile.data
    /\ iteration' = from_dict(iterFile.data)
    /\ filtered' = FilterBlueprints(statuses)
    /\ trace' = Append(trace, Ev("read_iteration", 0, "", 0, iterFile.kind = "json"))
    /\ pc' = "loop"
    /\ UNCHANGED <<iterFile, versionFile, tree, other, issued, task, error, staged_only, output, statuses,
                   index, updated_version, custom_message>>

\* lines 128-143: read iteration.json and filter the blueprint records
LoadIteration ==
    /\ pc = "load"
    /\ IF iterFile.kind = "absent" THEN
            /\ Raise(LoadError(iterFile))
            /\ trace' = Append(trace, Ev("read_iteration", 0, "", 0, FALSE))
            /\ UNCHANGED <<iteraction_json, iteration, filtered>>
       ELSE IF iterFile.kind # "json" THEN
            /\ Raise(LoadError(iterFile))
            /\ trace' = Append(trace, Ev("read_iteration", 0, "", 0, FALSE))
            /\ UNCHANGED <<iteraction_json, iteration, filtered>>
       ELSE /\ iteraction_json' = iterFile.data
            /\ iteration' = from_dict(iterFile.data)
            /\ filtered' = FilterBlueprints(statuses)
            /\ trace' = Append(trace, Ev("read_iteration", 0, "", 0, TRUE))
            /\ pc' = "loop"
            /\ UNCHANGED error
    /\ UNCHANGED <<iterFile, versionFile, tree, other, issued, task, staged_only, output, statuses,
                   index, updated_version, custom_message>>

\* line 145 and 219: the loop is exhausted
LoopExit ==
    /\ pc = "loop"
    /\ index >= Len(filtered)
    /\ pc' = "done"
    /\ UNCHANGED <<iterFile, versionFile, tree, other, issued, task, error, staged_only, output,
                   statuses, iteraction_json, iteration, filtered, index,
                   updated_version, custom_message, trace>>

\* lines 145-155: next record, read version.json, bump
ReadVersion ==
    /\ pc = "loop"
    /\ index < Len(filtered)
    /\ trace' = Append(trace, Ev("read_version", index, versionFile.kind, versionFile.n,
                                  versionFile.kind \notin {"empty", "malformed"}))
    /\ IF versionFile.kind \in {"empty", "malformed"} THEN
            /\ Raise(VersionError(versionFile))
            /\ UNCHANGED updated_version
       ELSE IF UpdateVersionRaises(versionFile) THEN
            /\ Raise("TypeError")
            /\ UNCHANGED updated_version
       ELSE /\ updated_version' = update_version(versionFile)
            /\ pc' = "prompt"
            /\ UNCHANGED error
    /\ UNCHANGED <<iterFile, versionFile, tree, other, issued, task, staged_only, output, statuses,
                   iteraction_json, iteration, filtered, index, custom_message>>

\* an Abort at the prompt that only skips the record
Prompt_AbortSkipsRecord ==
    /\ pc = "prompt"
    /\ \/ \E m \in CustomMessages :
            /\ custom_message' = m
            /\ trace' = Append(trace, Ev("prompt", index, m, 0, TRUE))
            /\ pc' = "confirm"
            /\ UNCHANGED index
       \/ /\ trace' = Append(trace, Ev("prompt", index, "Abort", 0, FALSE))
          /\ pc' = "loop"
          /\ index' = index + 1
          /\ UNCHANGED custom_message
    /\ UNCHANGED <<iterFile, versionFile, tree, other, issued, task, error, staged_only, output,
                   statuses, iteraction_json, iteration, filtered, updated_version>>

\* lines 157-161: the annotation prompt; Abort returns
Prompt ==
    /\ pc = "prompt"
    /\ \/ \E m \in CustomMessages :
            /\ custom_message' = m
            /\ trace' = Append(trace, Ev("prompt", index, m, 0, TRUE))
            /\ pc' = "confirm"
       \/ /\ trace' = Append(trace, Ev("prompt", index, "Abort", 0, FALSE))
          /\ pc' = "aborted"
          /\ UNCHANGED custom_message
    /\ UNCHANGED <<iterFile, versionFile, tree, other, issued, task, error, staged_only, output,
                   statuses, iteraction_json, iteration, filtered, index, updated_version>>

\* a decline that ends the whole run instead of skipping the record
Confirm_DeclineEndsRun ==
    /\ pc = "confirm"
    /\ \/ /\ trace' = Append(trace, Ev("confirm", index, "yes", updated_version, TRUE))
          /\ pc' = "write_iteration"
       \/ /\ trace' = Append(trace, Ev("confirm", index, "no", updated_version, TRUE))
          /\ pc' = "aborted"
       \/ /\ trace' = Append(trace, Ev("confirm", index, "Abort", updated_version, FALSE))
          /\ pc' = "aborted"
    /\ UNCHANGED <<iterFile, versionFile, tree, other, issued, task, error, staged_only, output,
                   statuses, iteraction_json, iteration, filtered, index, updated_version,
                   custom_message>>

\* a decline that asks about the same record again
Confirm_DeclineRetries ==
    /\ pc = "confirm"
    /\ \/ /\ trace' = Append(trace, Ev("confirm", index, "yes", updated_version, TRUE))
          /\ pc' = "write_iteration"
       \/ /\ trace' = Append(trace, Ev("confirm", index, "no", updated_version, TRUE))
          /\ pc' = "loop"
       \/ /\ trace' = Append(trace, Ev("confirm", index, "Abort", updated_version, FALSE))
          /\ pc' = "aborted"
    /\ UNCHANGED <<iterFile, versionFile, tree, other, issued, task, error, staged_only, output,
                   statuses, iteraction_json, iteration, filtered, index, updated_version,
                   custom_message>>

\* lines 163-195: the confirmation; Abort returns, "no" continues the loop
Confirm ==
    /\ pc = "confirm"
    /\ \/ /\ trace' = Append(trace, Ev("confirm", index, "yes", updated_version, TRUE))
          /\ pc' = "write_iteration"
          /\ UNCHANGED index
       \/ /\ trace' = Append(trace, Ev("confirm", index, "no", updated_version, TRUE))
          /\ pc' = "loop"
          /\ index' = index + 1
       \/ /\ trace' = Append(trace, Ev("confirm", index, "Abort", updated_version, FALSE))
          /\ pc' = "aborted"
          /\ UNCHANGED index
    /\ UNCHANGED <<iterFile, versionFile, tree, other, issued, task, error, staged_only, output,
                   statuses, iteraction_json, iteration, filtered, updated_version,
                   custom_message>>

\* line 204: open(ITERATION_FILE, 'w') truncates the file
OpenIteration ==
    /\ pc = "write_iteration"
    /\ iterFile' = IterEmpty
    /\ pc' = "update"
    /\ UNCHANGED <<versionFile, tree, other, issued, task, error, staged_only, output,
                   statuses, iteraction_json, iteration, filtered, index,
                   updated_version, custom_message, trace>>

\* line 205: update, on the in-memory ledger; an Exit closes the file empty
UpdateIteration ==
    /\ pc = "update"
    /\ IF UpdateRaises(status) THEN
            /\ Raise("Exit")
            /\ UNCHANGED iteration
       ELSE /\ iteration' = update(iteration, status)
            /\ pc' = "dump_iteration"
            /\ UNCHANGED error
    /\ UNCHANGED <<iterFile, versionFile, tree, other, issued, task, staged_only, output,
                   statuses, iteraction_json, filtered, index, updated_version,
                   custom_message, trace>>

\* the ledger as it was loaded dumped instead of the updated one
WriteIteration_Stale ==
    /\ pc = "dump_iteration"
    /\ iterFile' = DumpLedgerOver(iterFile, iteraction_json)
    /\ trace' = Append(trace, Ev("write_iteration", index, Str(status.path), 0, TRUE))
    /\ pc' = "write_version"
    /\ UNCHANGED <<versionFile, tree, other, issued, task, error, staged_only, output,
                   statuses, iteraction_json, iteration, filtered, index,
                   updated_version, custom_message>>

\* line 206 and the end of the with block: dump the ledger, close the file
WriteIteration ==
    /\ pc = "dump_iteration"
    /\ iterFile' = DumpLedgerOver(iterFile, iteration)
    /\ trace' = Append(trace, Ev("write_iteration", index, Str(status.path), 0, TRUE))
    /\ pc' = "write_version"
    /\ UNCHANGED <<versionFile, tree, other, issued, task, error, staged_only, output,
                   statuses, iteraction_json, iteration, filtered, index,
                   updated_version, custom_message>>

\* an open that reads version.json once more and bumps what it finds
OpenVersion_Rereads ==
    /\ pc = "write_version"
    /\ updated_version' =
          IF versionFile.kind = "int" THEN versionFile.n + 1 ELSE updated_version
    /\ versionFile' = VersionEmpty
    /\ pc' = "dump_version"
    /\ UNCHANGED <<iterFile, tree, other, issued, task, error, staged_only, output,
                   statuses, iteraction_json, iteration, filtered, index,
                   custom_message, trace>>

\* line 208: open(VERSION_FILE, 'w') truncates the file
OpenVersion ==
    /\ pc = "write_version"
    /\ versionFile' = VersionEmpty
    /\ pc' = "dump_version"
    /\ UNCHANGED <<iterFile, tree, other, issued, task, error, staged_only, output,
                   statuses, iteraction_json, iteration, filtered, index,
                   updated_version, custom_message, trace>>

\* a step that goes on to the commands with version.json left as it was
WriteVersion_NotPersisted ==
    /\ pc = "dump_version"
    /\ trace' = Append(trace, Ev("write_version", index, "", updated_version, TRUE))
    /\ pc' = "stage"
    /\ UNCHANGED <<iterFile, versionFile, tree, other, issued, task, error, staged_only,
                   output, statuses, iteraction_json, iteration, filtered, index,
                   updated_version, custom_message>>

\* line 209 and the end of the with block: dump the version, close the file
WriteVersion ==
    /\ pc = "dump_version"
    /\ versionFile' = DumpVersionOver(versionFile, updated_version)
    /\ trace' = Append(trace, Ev("write_version", index, "", updated_version, TRUE))
    /\ pc' = "stage"
    /\ UNCHANGED <<iterFile, tree, other, issued, task, error, staged_only, output, statuses,
                   iteraction_json, iteration, filtered, index, updated_version,
                   custom_message>>

\* c.run(cmd, warn=True): a non-zero exit is ignored
Run_IgnoreFailure(at, cmd, next) ==
    /\ pc = at
    /\ \E ok \in BOOLEAN : trace' = Append(trace, [cmd EXCEPT !.ok = ok])
    /\ pc' = next
    /\ UNCHANGED error

\* c.run(cmd): the command runs; a non-zero exit raises UnexpectedExit
Run(at, cmd, next) ==
    /\ pc = at
    /\ \/ /\ trace' = Append(trace, cmd)
          /\ pc' = next
          /\ UNCHANGED error
       \/ /\ trace' = Append(trace, Failed(cmd))
          /\ Raise("UnexpectedExit")

\* line 211
RunStage ==
    /\ Run("stage", StageCmd, "commit")
    /\ UNCHANGED <<iterFile, versionFile, tree, other, issued, task, staged_only, output, statuses,
                   iteraction_json, iteration, filtered, index, updated_version,
                   custom_message>>

\* line 213
RunCommit ==
    /\ Run("commit", CommitCmd, "tag")
    /\ UNCHANGED <<iterFile, versionFile, tree, other, issued, task, staged_only, output, statuses,
                   iteraction_json, iteration, filtered, index, updated_version,
                   custom_message>>

\* line 215
RunTag ==
    /\ Run("tag", TagCmd, "push")
    /\ issued' = issued \cup {updated_version}
    /\ UNCHANGED <<iterFile, versionFile, tree, other, task, staged_only, output, statuses,
                   iteraction_json, iteration, filtered, index, updated_version,
                   custom_message>>

\* line 217, then the next loop iteration
RunPush ==
    /\ pc = "push"
    /\ \/ /\ trace' = Append(trace, PushCmd)
          /\ pc' = "loop"
          /\ index' = index + 1
          /\ UNCHANGED error
       \/ /\ trace' = Append(trace, Failed(PushCmd))
          /\ Raise("UnexpectedExit")
          /\ UNCHANGED index
    /\ UNCHANGED <<iterFile, versionFile, tree, other, issued, task, staged_only, output, statuses,
                   iteraction_json, iteration, filtered, updated_version, custom_message>>

----------------------------------------------------------------------------
(* initialize_warehouse, lines 254-298 *)

\* a ledger keyed by the stem instead of the path
ScannedLedger_ByStem ==
    [k \in { p.stem : p \in tree } |->
        LET path == CHOOSE p \in tree : p.stem = k
        IN BlueprintIterationModel(path.stem, Str(path), FIRST_ITERATION_NUMBER)]

ScannedLedger ==
    [k \in { Str(p) : p \in tree } |->
        LET path == CHOOSE p \in tree : Str(p) = k
        IN BlueprintIterationModel(path.stem, Str(path), FIRST_ITERATION_NUMBER)]

\* a bootstrap that refuses an existing empty file as well
InitializeWarehouse_RefusesEmpty ==
    /\ pc = "idle"
    /\ task' = "initialize_warehouse"
    /\ trace' = <<>>
    /\ IF iterFile.kind # "absent" THEN
            /\ Raise("Exit")
            /\ UNCHANGED iterFile
       ELSE /\ iterFile' = IterJson(ScannedLedger)
            /\ pc' = "done"
            /\ error' = ""
    /\ UNCHANGED <<versionFile, tree, other, issued, staged_only, output, statuses, iteraction_json,
                   iteration, filtered, index, updated_version, custom_message>>

\* a bootstrap without the guard of lines 257-264
InitializeWarehouse_Overwrite ==
    /\ pc = "idle"
    /\ task' = "initialize_warehouse"
    /\ trace' = <<>>
    /\ iterFile' = IterJson(ScannedLedger)
    /\ pc' = "done"
    /\ error' = ""
    /\ UNCHANGED <<versionFile, tree, other, issued, staged_only, output, statuses, iteraction_json,
                   iteration, filtered, index, updated_version, custom_message>>

InitializeWarehouse ==
    /\ pc = "idle"
    /\ task' = "initialize_warehouse"
    /\ trace' = <<>>
    /\ IF iterFile.kind \in {"malformed", "json"} THEN
            /\ Raise("Exit")
            /\ UNCHANGED iterFile
       ELSE /\ iterFile' = IterJson(ScannedLedger)
            /\ pc' = "done"
            /\ error' = ""
    /\ UNCHANGED <<versionFile, tree, other, issued, staged_only, output, statuses, iteraction_json,
                   iteration, filtered, index, updated_version, custom_message>>

----------------------------------------------------------------------------
(* The process of the task exits: its locals are gone, the files stay *)

TaskExit ==
    /\ pc \in Ended
    /\ pc' = "idle"
    /\ error' = ""
    /\ staged_only' = FALSE
    /\ output' = <<>>
    /\ statuses' = <<>>
    /\ iteraction_json' = EmptyLedger
    /\ iteration' = EmptyLedger
    /\ filtered' = <<>>
    /\ index' = 0
    /\ updated_version' = 0
    /\ custom_message' = ""
    /\ trace' = <<>>
    /\ UNCHANGED <<iterFile, versionFile, tree, other, issued, task>>

----------------------------------------------------------------------------

Next ==
    \/ \E out \in Outputs, so \in BOOLEAN : ParseStatus(out, so)
    \/ LoadIteration
    \/ LoopExit
    \/ ReadVersion
    \/ Prompt
    \/ Confirm
    \/ OpenIteration
    \/ UpdateIteration
    \/ WriteIteration
    \/ OpenVersion
    \/ WriteVersion
    \/ RunStage
    \/ RunCommit
    \/ RunTag
    \/ RunPush
    \/ InitializeWarehouse
    \/ TaskExit

Spec == Init /\ [][Next]_vars

----------------------------------------------------------------------------
(* Reading the effects of the running task off its trace *)

InRun == task = "version_and_commit" /\ pc # "idle"

Positions == 1..Len(trace)

At(k, kind) == trace[k].ev = kind

Answered(k, a) == trace[k].ev = "confirm" /\ trace[k].ans = a

\* positions of the given kind of event
Of(kind) == { k \in Positions : At(k, kind) }

WriteKinds == {"write_iteration", "write_version"}
CommandKinds == {"stage", "commit", "tag", "push"}

\* the writes and commands logged for record i
EffectsOf(i) ==
    { k \in Positions : trace[k].index = i /\ trace[k].ev \in WriteKinds \cup CommandKinds }

\* the user confirmed the current record and version.json is not yet rewritten
PendingWrite ==
    pc \in {"write_iteration", "update", "dump_iteration", "write_version", "dump_version"}

\* the run is between the open that truncates a file and the dump into it
\* (lines 204-206, lines 208-209); it neither waits nor returns in between
LedgerOpen == pc \in {"update", "dump_iteration"}
VersionOpen == pc = "dump_version"

\* iteration.json was loaded by this run
LoadedOk == \E k \in Of("read_iteration") : trace[k].ok

\* the key of filtered record i (0-based)
KeyOf(i) == Str(filtered[i + 1].path)

\* the ledger writes logged for a key
WritesOf(key) == { k \in Of("write_iteration") : trace[k].ans = key }

\* the iteration number the loaded ledger and the logged writes give a key
ExpectedIteration(key) ==
    IF key \in DOMAIN iteraction_json
    THEN iteraction_json[key].iteration + Cardinality(WritesOf(key))
    ELSE FIRST_ITERATION_NUMBER + Cardinality(WritesOf(key)) - 1

\* iteration.json holds the loaded ledger with exactly the logged writes applied
LedgerMatchesTrace ==
    IF LedgerOpen THEN iterFile = IterEmpty
    ELSE /\ iterFile.kind = "json"
         /\ DOMAIN iterFile.data =
               DOMAIN iteraction_json \cup { trace[k].ans : k \in Of("write_iteration") }
         /\ \A key \in DOMAIN iterFile.data :
               IF WritesOf(key) = {}
               THEN iterFile.data[key] = iteraction_json[key]
               ELSE iterFile.data[key].iteration = ExpectedIteration(key)

\* version.json holds the first value read plus one per logged write
VersionMatchesTrace ==
    IF VersionOpen THEN versionFile = VersionEmpty
    ELSE \A k \in Of("read_version") :
            (trace[k].ok /\ trace[k].ans = "int") =>
                versionFile = VersionInt(trace[k].v
                    + Cardinality({ j \in Of("write_version") : j > k }))

----------------------------------------------------------------------------
(* C1: in a version_and_commit run the version persisted in version.json   *)
(* is the value read for any record plus the number of records confirmed   *)
(* since (one per confirmed record, none per declined record), so it never *)
(* decreases and after N confirmed records it is v0 + N.  The write of a   *)
(* confirmed record is the open of line 208, which empties the file, and   *)
(* the dump of line 209; the file is empty only between the two.           *)

C1_VersionCountsConfirmed ==
    InRun =>
        \A k \in Of("read_version") :
            (trace[k].ok /\ trace[k].ans = "int") =>
                LET confirmedSince == { j \in Positions : j > k /\ Answered(j, "yes") }
                    declinedSince == { j \in Positions : j > k /\ Answered(j, "no") }
                    N == Cardinality(confirmedSince) - (IF PendingWrite THEN 1 ELSE 0)
                IN IF VersionOpen THEN versionFile = VersionEmpty
                   ELSE /\ versionFile = VersionInt(trace[k].v + N)
                        /\ versionFile.n >= trace[k].v
                        /\ (confirmedSince = {} /\ declinedSince # {}) =>
                               versionFile = VersionInt(trace[k].v)

\* two records confirmed in one run: the version is two above the first read
C1_Witness ==
    /\ InRun
    /\ Cardinality(Of("write_version")) = 2
    /\ \E k \in Of("read_version") : trace[k].index = 0 /\ versionFile.n = trace[k].v + 2

----------------------------------------------------------------------------
(* C2: when the user declines a record, the decline step changes neither   *)
(* the in-memory ledger nor iteration.json nor version.json, no write and  *)
(* no stage/commit/tag/push is logged for that record, and the run goes on *)
(* with the next filtered record (or ends normally after the last one).    *)

DeclineLeavesRecord ==
    InRun =>
        \A k \in Positions :
            Answered(k, "no") =>
                /\ EffectsOf(trace[k].index) = {}
                /\ IF k = Len(trace)
                   THEN /\ pc \in {"loop", "done"}
                        /\ index = trace[k].index + 1
                        /\ pc = "done" => index = Len(filtered)
                   ELSE /\ At(k + 1, "read_version")
                        /\ trace[k + 1].index = trace[k].index + 1

DeclineStep ==
    /\ pc = "confirm"
    /\ trace' = Append(trace, Ev("confirm", index, "no", updated_version, TRUE))

C2_DeclineSkipsOnlyTheRecord ==
    /\ []DeclineLeavesRecord
    /\ [][DeclineStep => UNCHANGED <<iterFile, versionFile, iteration>>]_vars

\* the first record was declined and the second was reached and confirmed
C2_Witness ==
    /\ InRun
    /\ \E k \in Positions : Answered(k, "no") /\ trace[k].index = 0
    /\ \E k \in Positions : Answered(k, "yes") /\ trace[k].index = 1

----------------------------------------------------------------------------
(* C3: for every confirmed record the effects are, in this order, the      *)
(* ledger write, the version write, stage, commit, tag, push, each only    *)
(* after the previous one succeeded; the ledger written already holds the  *)
(* mutation of the record, and the version written is the bumped one.      *)

ConfirmedSteps == <<"write_iteration", "write_version", "stage", "commit", "tag", "push">>

\* the events logged after position k for the record confirmed there
StepsAfter(k) ==
    SelectSeq(SubSeq(trace, k + 1, Len(trace)), LAMBDA e : e.index = trace[k].index)

C3_ConfirmedStepsInOrder ==
    InRun =>
        /\ \A k \in Positions :
              Answered(k, "yes") =>
                  LET steps == StepsAfter(k)
                  IN /\ Len(steps) <= Len(ConfirmedSteps)
                     /\ \A j \in 1..Len(steps) :
                           /\ steps[j].ev = ConfirmedSteps[j]
                           /\ j < Len(steps) => steps[j].ok
                           /\ trace[k + j] = steps[j]
                     /\ k + Len(steps) < Len(trace) =>
                           /\ Len(steps) = Len(ConfirmedSteps)
                           /\ steps[Len(steps)].ok
                     /\ Len(steps) >= 2 => steps[2].v = trace[k].v
        /\ (Of("write_iteration") # {}) =>
              /\ LedgerMatchesTrace
              /\ ~LedgerOpen => iterFile.data = iteration
        /\ VersionMatchesTrace

\* a confirmed record went through all six steps
C3_Witness ==
    /\ InRun
    /\ \E k \in Positions :
          /\ Answered(k, "yes")
          /\ Len(StepsAfter(k)) = 6
          /\ StepsAfter(k)[6].ok
          /\ KeyOf(trace[k].index) \in DOMAIN iteraction_json

----------------------------------------------------------------------------
(* C4: update on a blueprint path replaces the entry under that path by    *)
(* {name: stem, path: path string, iteration: old + 1} when the ledger has *)
(* one, so its name and path are unchanged exactly when they already were  *)
(* the stem and the path string, as in every entry the tasks write, and a  *)
(* stored name that differs is replaced by the stem; it inserts            *)
(* {name: stem, path: path string, iteration: 1} when the ledger has none; *)
(* every other entry is unchanged.                                         *)

\* the step of line 205, with the record it is applied to
UpdateStep == pc = "update" /\ pc' = "dump_iteration"

OthersUnchanged(key) ==
    /\ DOMAIN iteration' = DOMAIN iteration \cup {key}
    /\ \A k \in DOMAIN iteration \ {key} : iteration'[k] = iteration[k]

\* the old entry with its iteration raised by one
Incremented(entry) == [entry EXCEPT !.iteration = entry.iteration + 1]

----------------------------------------------------------------------------
(* C5: over any sequence of initialize_warehouse and version_and_commit    *)
(* runs, no step lowers or removes the persisted iteration of a ledger     *)
(* entry, and the ledger write of a confirmed record whose path is already *)
(* tracked raises its persisted iteration by exactly 1.  The ledger write  *)
(* is the open of line 204, which empties the file while the run holds its *)
(* content in memory, update on that content, and the dump of the result;  *)
(* no other step changes a ledger file.                                    *)

C5_IterationNeverDecreases ==
    [][/\ (iterFile.kind = "json" /\ pc # "write_iteration") => iterFile' = iterFile
       /\ pc = "write_iteration" =>
             /\ iterFile = IterJson(iteration)
             /\ iterFile' = IterEmpty
       /\ pc = "update" =>
             /\ iterFile' = IterEmpty
             /\ \A key \in DOMAIN iteration :
                   /\ key \in DOMAIN iteration'
                   /\ iteration'[key].iteration >= iteration[key].iteration
                   /\ key = KeyOf(index) =>
                         iteration'[key].iteration = iteration[key].iteration + 1
                   /\ key # KeyOf(index) => iteration'[key] = iteration[key]
       /\ pc = "dump_iteration" => iterFile' = IterJson(iteration)]_vars

\* a tracked artifact was released twice since the ledger was loaded
C5_Witness ==
    /\ InRun
    /\ \E key \in DOMAIN iteraction_json :
          /\ Cardinality(WritesOf(key)) = 2
          /\ iterFile.data[key].iteration = iteraction_json[key].iteration + 2

----------------------------------------------------------------------------
(* C6: at every point of a run that loaded the ledger, iteration.json is a *)
(* ledger and every entry in which it differs from the loaded ledger is    *)
(* the entry of a record the user confirmed; between the open of line 204  *)
(* and the dump of line 206, for a confirmed record, the file is empty.    *)

ConfirmedKeys == { KeyOf(trace[k].index) : k \in { j \in Positions : Answered(j, "yes") } }

Differs(key) ==
    \/ key \notin DOMAIN iterFile.data
    \/ key \notin DOMAIN iteraction_json
    \/ iterFile.data[key] # iteraction_json[key]

C6_OnlyConfirmedEntriesChange ==
    (InRun /\ LoadedOk) =>
        IF LedgerOpen
        THEN /\ iterFile = IterEmpty
             /\ KeyOf(index) \in ConfirmedKeys
        ELSE /\ iterFile.kind = "json"
             /\ \A key \in DOMAIN iterFile.data \cup DOMAIN iteraction_json :
                   Differs(key) => key \in ConfirmedKeys

\* one record declined and another confirmed: only the confirmed entry differs
C6_Witness ==
    /\ InRun
    /\ LoadedOk
    /\ \E k \in Positions :
          /\ Answered(k, "no")
          /\ KeyOf(trace[k].index) \in DOMAIN iteraction_json
          /\ ~Differs(KeyOf(trace[k].index))
    /\ \E key \in ConfirmedKeys : key \in DOMAIN iterFile.data /\ Differs(key)

----------------------------------------------------------------------------
(* C7: an Abort at the annotation prompt or at the confirmation is the     *)
(* last effect of the run, which ends without an error; the aborting step  *)
(* writes neither file, no write or command is logged for the current      *)
(* record, and the files hold exactly the writes of the earlier records.   *)

Aborted(k) == trace[k].ev \in {"prompt", "confirm"} /\ ~trace[k].ok

AbortEndsRun ==
    InRun =>
        \A k \in Positions :
            Aborted(k) =>
                /\ k = Len(trace)
                /\ pc = "aborted"
                /\ error = ""
                /\ index = trace[k].index
                /\ EffectsOf(trace[k].index) = {}
                /\ LedgerMatchesTrace
                /\ VersionMatchesTrace

C7_AbortEndsTheRunCleanly ==
    /\ []AbortEndsRun
    /\ [][(pc # "aborted" /\ pc' = "aborted") => UNCHANGED <<iterFile, versionFile>>]_vars

\* the first record went through all its steps, the second was aborted
C7_Witness ==
    /\ InRun
    /\ pc = "aborted"
    /\ trace # <<>>
    /\ Aborted(Len(trace))
    /\ trace[Len(trace)].index = 1
    /\ \E k \in Positions : At(k, "push") /\ trace[k].ok /\ trace[k].index = 0

----------------------------------------------------------------------------
(* C8: a failing stage, commit, tag or push is the last effect of the run, *)
(* which ends with UnexpectedExit; the ledger and version writes of the    *)
(* failing record and of the earlier confirmed records stay on disk.       *)

FailedCommand(k) == trace[k].ev \in CommandKinds /\ ~trace[k].ok

C8_CommandFailureHaltsWithoutRollback ==
    InRun =>
        \A k \in Positions :
            FailedCommand(k) =>
                /\ k = Len(trace)
                /\ pc = "error"
                /\ error = "UnexpectedExit"
                /\ index = trace[k].index
                /\ \E j \in 1..(k - 1) : At(j, "write_iteration") /\ trace[j].index = trace[k].index
                /\ \E j \in 1..(k - 1) : At(j, "write_version") /\ trace[j].index = trace[k].index
                /\ LedgerMatchesTrace
                /\ VersionMatchesTrace
                /\ versionFile = VersionInt(updated_version)

\* the tag of the second record failed after the first record was pushed
C8_Witness ==
    /\ InRun
    /\ pc = "error"
    /\ trace # <<>>
    /\ FailedCommand(Len(trace))
    /\ trace[Len(trace)].ev = "tag"
    /\ trace[Len(trace)].index = 1
    /\ \E k \in Positions : At(k, "push") /\ trace[k].ok /\ trace[k].index = 0

----------------------------------------------------------------------------
(* C9: a ledger file that does not load ends every run with an error, and  *)
(* a malformed version file ends the run with an error at the first        *)
(* filtered record, before its prompt; with no filtered record the version *)
(* file is not read and the run ends normally.  In all these runs no       *)
(* prompt is answered, nothing is written and no command is executed.      *)

RecordEffects ==
    { k \in Positions :
        trace[k].ev \in {"prompt", "confirm"} \cup WriteKinds \cup CommandKinds }

BadLedger == iterFile.kind # "json" /\ ~LedgerOpen
BadVersion == versionFile.kind = "malformed"

MalformedIsFatalAtFirstUse ==
    InRun =>
        /\ BadLedger =>
              /\ pc \in Ended => pc = "error"
              /\ RecordEffects = {}
        /\ BadVersion =>
              /\ pc \in Ended => (pc = "error" \/ (pc = "done" /\ filtered = <<>>))
              /\ (pc = "done" /\ ~BadLedger) => Of("read_version") = {}
              /\ RecordEffects = {}
              /\ \A k \in Of("read_version") :
                    ~trace[k].ok /\ trace[k].index = 0 /\ k = Len(trace) /\ pc = "error"

C9_MalformedFilesFatalWhenRead ==
    /\ []MalformedIsFatalAtFirstUse
    /\ [][(InRun /\ (BadLedger \/ BadVersion)) => UNCHANGED <<iterFile, versionFile>>]_vars

\* the claim as stated: every run over a malformed file ends with an error
C9_MalformedAlwaysFatal ==
    (InRun /\ (BadLedger \/ BadVersion)) =>
        /\ pc \in Ended => pc = "error"
        /\ RecordEffects = {}

\* a malformed version file stopped the run at its first record
C9_Witness ==
    /\ InRun
    /\ BadVersion
    /\ LoadedOk
    /\ pc = "error"
    /\ error = "TypeError"
    /\ trace # <<>>
    /\ At(Len(trace), "read_version")
    /\ Len(filtered) = 2

----------------------------------------------------------------------------
(* C10: a version file whose version field is the string form of n is      *)
(* bumped to n + 1 for the record: the read does not end in an error, the  *)
(* bumped version is n + 1, and the tag and the version write of the       *)
(* record carry n + 1.                                                     *)

C10_StringVersionIsBumped ==
    InRun =>
        \A k \in Of("read_version") :
            trace[k].ans = "str" =>
                /\ error # "TypeError"
                /\ k = Len(trace) => (pc = "prompt" /\ updated_version = trace[k].v + 1)
                /\ \A j \in Positions :
                      (j > k /\ trace[j].index = trace[k].index
                             /\ trace[j].ev \in {"tag", "write_version"}) =>
                          trace[j].v = trace[k].v + 1

----------------------------------------------------------------------------
(* The status parser on its own: every kind of two-character code *)

ParserCodes ==
    { <<"A", " ">>, <<" ", "A">>, <<"D", " ">>, <<" ", "D">>,
      <<"M", " ">>, <<" ", "M">>, <<"R", " ">>, <<" ", "R">>,
      <<"?", "?">>, <<" ", "?">>, <<"?", " ">>, <<"M", "M">>,
      <<"A", "M">>, <<" ", "T">>, <<"T", " ">>, <<" ", " ">> }

ParserLines ==
    { MkLine(c[1], c[2], PathAX) : c \in ParserCodes }
        \cup { MkLine("M", " ", PathNotes), MkRename("R", " ", PathAX, PathBX) }

ParserOutputs == SeqsUpTo(ParserLines, MaxParseLines)

InitParser ==
    /\ Init
    /\ iterFile = IterJson(EmptyLedger)
    /\ versionFile = VersionInt(0)
    /\ tree = BlueprintPaths

NextParser ==
    \/ \E out \in ParserOutputs, so \in BOOLEAN : ParseStatus(out, so)
    \/ LoadIteration

SpecParser == InitParser /\ [][NextParser]_vars

\* the status kind a two-character code stands for, "none" when unsupported
KindOfCode(code) ==
    CASE code \in {<<"A", " ">>, <<" ", "A">>} -> "ADDED"
      [] code \in {<<"D", " ">>, <<" ", "D">>} -> "DELETED"
      [] code \in {<<"M", " ">>, <<" ", "M">>} -> "MODIFIED"
      [] code \in {<<"R", " ">>, <<" ", "R">>} -> "RENAME"
      [] code = <<"?", "?">> -> "UNTRACKED"
      [] OTHER -> "none"

\* the member of GitStatus with the given value
KindOfValue(value) ==
    CASE value = "A" -> "ADDED"
      [] value = "D" -> "DELETED"
      [] value = "M" -> "MODIFIED"
      [] value = "R" -> "RENAME"
      [] value = "??" -> "UNTRACKED"
      [] OTHER -> "none"

\* the path a line names: the right-hand side of a rename arrow
NamedPath(line) == IF line.arrow THEN line.new ELSE line.old

\* the positions of the given lines, in line order
PositionsWhere(Keep(_)) ==
    SelectSeq([i \in 1..Len(output) |-> i], Keep)

\* statuses holds one record per position of `at`, in that order, each with
\* the kind of its line's code and the path of its line
RecordsAre(at) ==
    /\ Len(statuses) = Len(at)
    /\ \A j \in 1..Len(at) :
          /\ KindOfValue(statuses[j].status) = KindOfCode(output[at[j]].code)
          /\ KindOfValue(statuses[j].status) # "none"
          /\ statuses[j].path = NamedPath(output[at[j]])

ParseError == pc = "error" /\ error = "ValueError"

\* the lines the staged-only filter lets through
Kept(i) == ~(staged_only /\ output[i].code[1] = " ")

----------------------------------------------------------------------------
(* C11: every status line the staged-only filter lets through (all lines   *)
(* in all-changes mode) yields exactly one record with the one kind of its *)
(* code when the code is supported, and fails the parse with ValueError    *)
(* when it is not; a line the staged-only filter drops yields no record    *)
(* and no error, whatever its second character.                            *)

C11_KeptLinesParsedOrRejected ==
    InRun =>
        LET kept == PositionsWhere(Kept)
        IN IF \E j \in 1..Len(kept) : KindOfCode(output[kept[j]].code) = "none"
           THEN ParseError
           ELSE ~ParseError /\ RecordsAre(kept)

\* the claim as stated: every line is parsed or rejected, in both modes
C11_EveryLineParsedOrRejected ==
    InRun =>
        LET all == PositionsWhere(LAMBDA i : TRUE)
        IN IF \E i \in 1..Len(output) : KindOfCode(output[i].code) = "none"
           THEN ParseError
           ELSE ~ParseError /\ RecordsAre(all)

\* staged-only: an unsupported code behind a blank index character passed
\* without an error, next to a supported line that gave a record
C11_Witness ==
    /\ InRun
    /\ staged_only
    /\ ~ParseError
    /\ Len(output) = 2
    /\ output[1].code = <<" ", "T">>
    /\ output[2].code = <<"R", " ">>
    /\ Len(statuses) = 1
    /\ statuses[1].status = "R"

----------------------------------------------------------------------------
(* C12: when the parse succeeds, staged-only mode yields no record for a   *)
(* line exactly when its first character is blank, so every kept record    *)
(* has a non-blank first character (a staged change, or an untracked `??`  *)
(* line); all-changes mode drops no line; the records are in line order;   *)
(* empty output gives an empty sequence without error.                     *)

C12_StagedOnlyDropsBlankIndex ==
    InRun =>
        /\ ~ParseError =>
              /\ staged_only => RecordsAre(PositionsWhere(LAMBDA i : output[i].code[1] # " "))
              /\ ~staged_only => RecordsAre(PositionsWhere(LAMBDA i : TRUE))
        /\ output = <<>> => (~ParseError /\ statuses = <<>>)

\* the index column of porcelain output shows a staged change unless it is
\* blank, `?` (untracked) or `!` (ignored)
HasStagedChange(line) == line.code[1] \notin {" ", "?", "!"}

\* the claim as stated: every record kept in staged-only mode is staged
C12_StagedOnlyKeepsStaged ==
    InRun =>
        /\ ~ParseError =>
              /\ staged_only => RecordsAre(PositionsWhere(LAMBDA i : output[i].code[1] # " "))
              /\ staged_only =>
                    \A i \in 1..Len(output) : Kept(i) => HasStagedChange(output[i])
              /\ ~staged_only => RecordsAre(PositionsWhere(LAMBDA i : TRUE))
        /\ output = <<>> => (~ParseError /\ statuses = <<>>)

\* staged-only: an unstaged line was dropped and an untracked line was kept
C12_Witness ==
    /\ InRun
    /\ staged_only
    /\ ~ParseError
    /\ Len(output) = 2
    /\ output[1].code = <<" ", "M">>
    /\ output[2].code = <<"?", "?">>
    /\ statuses = <<[path |-> PathAX, status |-> "??"]>>

----------------------------------------------------------------------------
(* C13: the release loop runs over exactly the parsed records whose path   *)
(* ends in .spz2bp, in parse order; every prompt, write and command of a   *)
(* run belongs to such a record, records are visited in increasing order,  *)
(* update never raises Exit, and iteration.json is never left truncated.   *)

HasBlueprintSuffix(st) == st.path.suffix = ".spz2bp"

C13_OnlyBlueprintsReleased ==
    InRun =>
        /\ error # "Exit"
        /\ LoadedOk =>
              /\ filtered = SelectSeq(statuses, HasBlueprintSuffix)
              /\ IF LedgerOpen THEN iterFile = IterEmpty ELSE iterFile.kind = "json"
        /\ pc = "update" => ~UpdateRaises(status)
        /\ \A k \in Positions :
              trace[k].ev # "read_iteration" =>
                  /\ trace[k].index < Len(filtered)
                  /\ HasBlueprintSuffix(filtered[trace[k].index + 1])
                  /\ trace[k].ev = "stage" =>
                        trace[k].ans = Str(filtered[trace[k].index + 1].path)
        /\ \A j, k \in Positions : j < k => trace[j].index <= trace[k].index

\* a blueprint record was released from a status output that also named
\* another file
C13_Witness ==
    /\ InRun
    /\ Len(statuses) = 2
    /\ ~HasBlueprintSuffix(statuses[1])
    /\ Len(filtered) = 1
    /\ \E k \in Positions : At(k, "push") /\ trace[k].ok

----------------------------------------------------------------------------
(* C14: initialize_warehouse ends normally exactly when iteration.json is  *)
(* missing or empty; when the file has any content it ends with Exit and   *)
(* the file is left as it was.                                             *)

BootstrapStep == pc = "idle" /\ task' = "initialize_warehouse"

C14_BootstrapRefusesContent ==
    [][BootstrapStep =>
        IF iterFile.kind \in {"absent", "empty"}
        THEN pc' = "done" /\ error' = "" /\ iterFile'.kind = "json"
        ELSE pc' = "error" /\ error' = "Exit" /\ iterFile' = iterFile]_vars

\* the bootstrap was refused over a ledger with an entry
C14_Witness ==
    /\ task = "initialize_warehouse"
    /\ pc = "error"
    /\ error = "Exit"
    /\ iterFile.kind = "json"
    /\ DOMAIN iterFile.data # {}

----------------------------------------------------------------------------
(* C15: after a successful initialize_warehouse iteration.json holds       *)
(* exactly one entry per blueprint file found, under the file's relative   *)
(* path, with name = stem and iteration = 1; files with the same stem in   *)
(* different directories each have their entry.                            *)

C15_BootstrapOneEntryPerFile ==
    (task = "initialize_warehouse" /\ pc = "done") =>
        /\ iterFile.kind = "json"
        /\ Cardinality(DOMAIN iterFile.data) = Cardinality(tree)
        /\ \A p \in tree :
              /\ Str(p) \in DOMAIN iterFile.data
              /\ iterFile.data[Str(p)] = [name |-> p.stem, path |-> Str(p), iteration |-> 1]

\* two files with the same stem were found and both have an entry
C15_Witness ==
    /\ task = "initialize_warehouse"
    /\ pc = "done"
    /\ \E p, q \in tree : p # q /\ p.stem = q.stem
    /\ Cardinality(DOMAIN iterFile.data) = 2

----------------------------------------------------------------------------
(* The repository before its ledger exists: iteration.json is missing or   *)
(* empty, so every ledger document comes from initialize_warehouse and the *)
(* runs after it.                                                          *)

InitFresh ==
    /\ Init
    /\ iterFile \in {IterAbsent, IterEmpty}

SpecFresh == InitFresh /\ [][Next]_vars

KeyedByPath(d) ==
    /\ \A k \in DOMAIN d : d[k].path = k
    /\ \A j, k \in DOMAIN d : d[j].path = d[k].path => j = k

(* C16: in every ledger reached by initialize_warehouse followed by        *)
(* version_and_commit runs, each entry's path field is the key it is       *)
(* stored under, and no two keys hold the same path.                       *)
C16_EntriesKeyedByPath ==
    /\ iterFile.kind = "json" => KeyedByPath(iterFile.data)
    /\ (InRun /\ LoadedOk) => KeyedByPath(iteration)

\* a run after the bootstrap added an entry the bootstrap had not found
C16_Witness ==
    /\ InRun
    /\ iterFile.kind = "json"
    /\ Str(PathAX) \in DOMAIN iterFile.data
    /\ Str(PathBX) \in DOMAIN iterFile.data
    /\ PathBX \notin tree
    /\ iterFile.data[Str(PathAX)].iteration = 2
    /\ \E k \in Positions : At(k, "write_iteration")

----------------------------------------------------------------------------
(* A run whose prompts are answered and whose commands exit: every step of *)
(* version_and_commit that can be taken is eventually taken.               *)

RunStep ==
    \/ LoadIteration
    \/ LoopExit
    \/ ReadVersion
    \/ Prompt
    \/ Confirm
    \/ OpenIteration
    \/ UpdateIteration
    \/ WriteIteration
    \/ OpenVersion
    \/ WriteVersion
    \/ RunStage
    \/ RunCommit
    \/ RunTag
    \/ RunPush

\* the working tree matters to initialize_warehouse only
InitFair ==
    /\ Init
    /\ tree = BlueprintPaths

SpecFair == InitFair /\ [][Next]_vars /\ WF_vars(RunStep)

Running == InRun /\ pc \notin Ended

\* the records the loop has reached, by their index in filtered
Processed == { trace[k].index : k \in Of("read_version") }

ProcessedAtMostOnce ==
    \A j, k \in Of("read_version") : j < k => trace[j].index < trace[k].index

EndsForCause ==
    /\ pc = "done" =>
          /\ index = Len(filtered)
          /\ Processed = 0..(Len(filtered) - 1)
    /\ pc = "aborted" =>
          /\ trace # <<>>
          /\ trace[Len(trace)].ev \in {"prompt", "confirm"}
          /\ trace[Len(trace)].ans = "Abort"
    /\ pc = "error" => error # ""

(* C17: every version_and_commit run terminates: it ends after the last    *)
(* filtered record, or earlier on an Abort or an error, and no filtered    *)
(* record is processed twice.                                              *)
C17_RunTerminates ==
    /\ [](InRun => (ProcessedAtMostOnce /\ EndsForCause))
    /\ (Running ~> (pc \in Ended))

\* a run ended after processing two records, one declined and one released
C17_Witness ==
    /\ InRun
    /\ pc = "done"
    /\ Len(filtered) = 2
    /\ \E k \in Positions : Answered(k, "no") /\ trace[k].index = 0
    /\ \E k \in Positions : At(k, "push") /\ trace[k].ok /\ trace[k].index = 1

----------------------------------------------------------------------------
(* Two processes of version_and_commit on one repository. Nothing in the   *)
(* task locks iteration.json or version.json, so between any two steps of  *)
(* one process the other may run. The variables task .. trace are the      *)
(* locals of the process that is running; `other` holds the locals of the  *)
(* process that is not.                                                    *)

Locals ==
    [task |-> task, pc |-> pc, error |-> error, staged_only |-> staged_only,
     output |-> output, statuses |-> statuses, iteraction_json |-> iteraction_json,
     iteration |-> iteration, filtered |-> filtered, index |-> index,
     updated_version |-> updated_version, custom_message |-> custom_message,
     trace |-> trace]

\* the scheduler runs the other process
Switch ==
    /\ other' = Locals
    /\ task' = other.task
    /\ pc' = other.pc
    /\ error' = other.error
    /\ staged_only' = other.staged_only
    /\ output' = other.output
    /\ statuses' = other.statuses
    /\ iteraction_json' = other.iteraction_json
    /\ iteration' = other.iteration
    /\ filtered' = other.filtered
    /\ index' = other.index
    /\ updated_version' = other.updated_version
    /\ custom_message' = other.custom_message
    /\ trace' = other.trace
    /\ UNCHANGED <<iterFile, versionFile, tree, issued>>

\* what git status prints to both processes
TwoOutputs == { <<MkLine("M", " ", PathAX)>>, <<MkLine("?", "?", PathBX)>> }

InitTwo ==
    /\ Init
    /\ iterFile = IterJson(Put(EmptyLedger, Str(PathAX), Tracked(PathAX, 1)))
    /\ versionFile \in {VersionInt(0), VersionInt(1)}
    /\ tree = BlueprintPaths

NextTwo ==
    \/ \E out \in TwoOutputs : ParseStatus(out, FALSE)
    \/ RunStep
    \/ Switch

SpecTwo == InitTwo /\ [][NextTwo]_vars

\* the events of the given kind in the trace of a process
EventsIn(L, kind) == { L.trace[k] : k \in { j \in 1..Len(L.trace) : L.trace[j].ev = kind } }

\* the process read version n for a record and has persisted its increment
BumpedFrom(L, n) ==
    \E r \in EventsIn(L, "read_version"), w \in EventsIn(L, "write_version") :
        r.index = w.index /\ r.ok /\ r.v = n

\* the process loaded ledger d and has persisted its update of entry key
UpdatedFrom(L, d, key) ==
    /\ L.iteraction_json = d
    /\ \E r \in EventsIn(L, "read_iteration") : r.ok
    /\ \E w \in EventsIn(L, "write_iteration") : w.ans = key

BumpedKey(d, key) == IF key \in DOMAIN d THEN d[key].iteration + 1 ELSE FIRST_ITERATION_NUMBER

(* C18: two interleaved runs lose an increment. Whenever both processes    *)
(* have read the same version n and both have persisted their increment,   *)
(* version.json holds n + 1, not n + 2, and every tag either of them has   *)
(* issued is v(n+1); whenever both loaded the same ledger and both have    *)
(* persisted their update of the same entry, the entry's iteration is one  *)
(* step from the loaded one, not two.                                      *)
C18_InterleavedRunsLoseIncrement ==
    /\ \A n \in 0..MaxVersion :
          (BumpedFrom(Locals, n) /\ BumpedFrom(other, n)) =>
              /\ versionFile = VersionInt(n + 1)
              /\ \A t \in EventsIn(Locals, "tag") \cup EventsIn(other, "tag") : t.v = n + 1
    /\ \A key \in { Str(p) : p \in BlueprintPaths } :
          (/\ UpdatedFrom(Locals, Locals.iteraction_json, key)
           /\ UpdatedFrom(other, Locals.iteraction_json, key)) =>
              /\ iterFile.kind = "json"
              /\ key \in DOMAIN iterFile.data
              /\ iterFile.data[key].iteration = BumpedKey(Locals.iteraction_json, key)

\* both runs released a/x from version 0 and iteration 1: two tags v1, the
\* version at 1 and the iteration at 2
C18_Witness ==
    /\ pc = "done"
    /\ other.pc = "done"
    /\ BumpedFrom(Locals, 0)
    /\ BumpedFrom(other, 0)
    /\ UpdatedFrom(Locals, Put(EmptyLedger, Str(PathAX), Tracked(PathAX, 1)), Str(PathAX))
    /\ UpdatedFrom(other, Put(EmptyLedger, Str(PathAX), Tracked(PathAX, 1)), Str(PathAX))
    /\ \E t \in EventsIn(Locals, "tag") : t.v = 1
    /\ \E t \in EventsIn(other, "tag") : t.v = 1
    /\ versionFile = VersionInt(1)
    /\ iterFile.data[Str(PathAX)].iteration = 2

----------------------------------------------------------------------------
(* C19: with one run at a time, the tag of a confirmed record names the    *)
(* version written to version.json in that record's step, and that version *)
(* has not been tagged before, in this run or an earlier one, whether or   *)
(* not an earlier record's command failed after its version was written.   *)

TagStep == pc = "tag" /\ pc' \in {"push", "error"}

C19_TagNamesPersistedVersionOnce ==
    [][TagStep =>
        /\ trace'[Len(trace')].ev = "tag"
        /\ trace'[Len(trace')].v = versionFile.n
        /\ versionFile.kind = "int"
        /\ \E k \in Of("write_version") :
              /\ trace[k].index = index
              /\ trace[k].v = versionFile.n
        /\ versionFile.n \notin issued
        /\ issued' = issued \cup {versionFile.n}]_vars

\* a version was written and never tagged, because a command failed, and
\* the record released after it was tagged with the next version
C19_Witness ==
    /\ InRun
    /\ \E v \in issued :
          /\ v - 1 >= 1
          /\ v - 1 \notin issued
          /\ \E k \in Of("tag") : trace[k].v = v /\ trace[k].ok

====
